---- MODULE Spec2Model ----
(***************************************************************************)
(* The /predict handler of flask_app.py (predict_sales) as a state machine. *)
(* Each request owns its locals (functions over Requests); one action per   *)
(* block of the handler, the projection loop one iteration at a time.       *)
(*                                                                          *)
(* Numbers that only sklearn/numpy compute (the standardised features, the  *)
(* least-squares coefficients, the prediction, mse, mape) are kept as terms *)
(* over exactly the values they are computed from: two equal terms denote   *)
(* equal numbers, because StandardScaler, LinearRegression and the metrics  *)
(* are deterministic functions of their arguments.  sin/cos of a month are  *)
(* kept in thousandths.                                                     *)
(***************************************************************************)
EXTENDS Integers, Sequences, FiniteSets, TLC

\* ------------------------------------------------------------- constants
MinHorizon == 1
MaxHorizon == 12
MinDataPoints == 6
MonthsPerYear == 12
DefaultMonthsAhead == 1

\* ---------------------------------------------------------------- bounds
\* longest months_ahead query string, longest historical series
MaxArgLen == 2
MaxLen == 7
\* requests in flight at once
NumRequests == 2

Requests == 1..NumRequests

\* ------------------------------------------------ request.args / int()
Digits == {"0", "1", "2", "3", "4", "5", "6", "7", "8", "9"}
\* characters of a months_ahead query string: digits, a sign, a letter, a dot
\* (int() also takes a leading +, blanks around the number and _ between
\* digits, which this alphabet leaves out)
Alphabet == Digits \cup {"-", "a", "."}

RECURSIVE StringsUpTo(_)
StringsUpTo(n) ==
    IF n = 0 THEN {<<>>}
    ELSE LET shorter == StringsUpTo(n - 1)
         IN  shorter \cup {Append(s, c) : s \in {t \in shorter : Len(t) = n - 1}, c \in Alphabet}

\* request.args: the parameter is absent, or present with a text
RawArgs ==
    {[present |-> FALSE, text |-> <<>>]}
        \cup {[present |-> TRUE, text |-> s] : s \in StringsUpTo(MaxArgLen)}

DigitVal(c) ==
    CASE c = "0" -> 0 [] c = "1" -> 1 [] c = "2" -> 2 [] c = "3" -> 3 [] c = "4" -> 4
      [] c = "5" -> 5 [] c = "6" -> 6 [] c = "7" -> 7 [] c = "8" -> 8 [] c = "9" -> 9

Unsigned(s) == IF s # <<>> /\ Head(s) = "-" THEN Tail(s) ELSE s

\* int(text) succeeds: an optional sign followed by one or more digits
IsIntLiteral(s) ==
    /\ Unsigned(s) # <<>>
    /\ \A k \in 1..Len(Unsigned(s)) : Unsigned(s)[k] \in Digits

RECURSIVE DigitsValue(_)
DigitsValue(s) ==
    IF s = <<>> THEN 0
    ELSE 10 * DigitsValue(SubSeq(s, 1, Len(s) - 1)) + DigitVal(s[Len(s)])

IntValue(s) ==
    IF s # <<>> /\ Head(s) = "-" THEN 0 - DigitsValue(Tail(s)) ELSE DigitsValue(s)

\* int(request.args.get('months_ahead', 1)) raises ValueError
IntRaises(arg) == arg.present /\ ~IsIntLiteral(arg.text)

\* int(request.args.get('months_ahead', 1))
ParsedMonthsAhead(arg) ==
    IF arg.present THEN IntValue(arg.text) ELSE DefaultMonthsAhead

\* -------------------------------------------------- the sales query result
\* One row per calendar month, ordered by (year, month); total_sales is a
\* one-element sequence, or <<>> for SQL NULL (SUM over NULLs only).
MonthIndex(y, m) == y * MonthsPerYear + (m - 1)
YearOf(idx) == idx \div MonthsPerYear
MonthOf(idx) == (idx % MonthsPerYear) + 1

LastYears == {1677, 2023, 2262}
SalesPatterns == {"plain", "null"}

SalesAt(k, pattern) ==
    IF pattern = "null" /\ k = 3 THEN <<>>
    ELSE <<100 + 10 * k + 5 * (k % 2)>>

\* the n consecutive months ending at (y, m)
Series(y, m, n, pattern) ==
    [k \in 1..n |->
        [year        |-> YearOf(MonthIndex(y, m) - (n - k)),
         month       |-> MonthOf(MonthIndex(y, m) - (n - k)),
         total_sales |-> SalesAt(k, pattern)]]

AllSeries ==
    {<<>>} \cup {Series(y, m, n, p) : y \in LastYears, m \in 1..MonthsPerYear,
                                      n \in 1..MaxLen, p \in SalesPatterns}

\* ------------------------------------------------------ numpy / pandas
MonthSin(m) ==
    CASE m = 1 -> 500 [] m = 2 -> 866 [] m = 3 -> 1000 [] m = 4 -> 866
      [] m = 5 -> 500 [] m = 6 -> 0 [] m = 7 -> -500 [] m = 8 -> -866
      [] m = 9 -> -1000 [] m = 10 -> -866 [] m = 11 -> -500 [] m = 12 -> 0

MonthCos(m) ==
    CASE m = 1 -> 866 [] m = 2 -> 500 [] m = 3 -> 0 [] m = 4 -> -500
      [] m = 5 -> -866 [] m = 6 -> -1000 [] m = 7 -> -866 [] m = 8 -> -500
      [] m = 9 -> 0 [] m = 10 -> 500 [] m = 11 -> 866 [] m = 12 -> 1000

MonthName(m) ==
    CASE m = 1 -> "January" [] m = 2 -> "February" [] m = 3 -> "March"
      [] m = 4 -> "April" [] m = 5 -> "May" [] m = 6 -> "June"
      [] m = 7 -> "July" [] m = 8 -> "August" [] m = 9 -> "September"
      [] m = 10 -> "October" [] m = 11 -> "November" [] m = 12 -> "December"

\* pd.Timestamp(year, month, day=1) exists: Timestamp.min is 1677-09-21 and
\* Timestamp.max is 2262-04-11, so the first of a month lies in
\* 1677-10 .. 2262-04; otherwise OutOfBoundsDatetime is raised (a pandas with
\* coarser Timestamp units raises further out, at datetime's year limits)
TimestampMin == <<1677, 10>>
TimestampMax == <<2262, 4>>
TimestampOK(y, m) ==
    /\ MonthIndex(TimestampMin[1], TimestampMin[2]) <= MonthIndex(y, m)
    /\ MonthIndex(y, m) <= MonthIndex(TimestampMax[1], TimestampMax[2])

\* strftime('%Y-%m-%d') of the first day of the month
DateStr(y, m) == <<y, m, 1>>

\* the rollover test written >= : December is skipped
AdvanceMonthSkipsDecember(y, m) ==
    IF m + 1 >= MonthsPerYear THEN <<y + 1, 1>> ELSE <<y, m + 1>>

\* the rollover without the year's increment
AdvanceMonthKeepsYear(y, m) ==
    IF m + 1 > MonthsPerYear THEN <<y, 1>> ELSE <<y, m + 1>>

\* one calendar month later (lines 97-102)
AdvanceMonth(y, m) ==
    IF m + 1 > MonthsPerYear THEN <<y + 1, 1>> ELSE <<y, m + 1>>

\* ------------------------------------------------------ feature columns
\* df['time_index'] = range(1, len(df) + 1)
TimeIndexColumn(n) == [k \in 1..n |-> k]

\* one row of [time_index, month_sin, month_cos]
FeatureRow(t, m) == <<t, MonthSin(m), MonthCos(m)>>

\* X = df[['time_index', 'month_sin', 'month_cos']].values
FeatureMatrix(rows) ==
    [k \in 1..Len(rows) |-> FeatureRow(TimeIndexColumn(Len(rows))[k], rows[k].month)]

\* y = df['total_sales'].values (after astype(float): NULL becomes NaN, <<>>)
TargetVector(rows) == [k \in 1..Len(rows) |-> rows[k].total_sales]

\* the forecast's time_index restarting at the loop counter
ForecastTimeIndexRestarts(n, i) == i

\* time_index of forecast step i over n historical points
ForecastTimeIndex(n, i) == n + i

\* ------------------------------------------------------------- sklearn
RECURSIVE ColSum(_, _, _)
ColSum(M, j, pow) ==
    IF M = <<>> THEN 0
    ELSE (IF pow = 2 THEN Head(M)[j] * Head(M)[j] ELSE Head(M)[j]) + ColSum(Tail(M), j, pow)

Unfitted == [n |-> 0, sum |-> <<0, 0, 0>>, sumsq |-> <<0, 0, 0>>]

\* StandardScaler().fit: per-column mean and variance, held as the sample
\* count, the column sums and the column sums of squares they are made of
StandardScalerFit(M) ==
    [n     |-> Len(M),
     sum   |-> <<ColSum(M, 1, 1), ColSum(M, 2, 1), ColSum(M, 3, 1)>>,
     sumsq |-> <<ColSum(M, 1, 2), ColSum(M, 2, 2), ColSum(M, 3, 2)>>]

\* scaler.transform(M): (M - mean) / scale, a term over M and the parameters
Transform(scaler, M) == [rows |-> M, by |-> scaler]

NoMatrix == Transform(Unfitted, <<>>)
NoModel == [fitted |-> FALSE, X |-> NoMatrix, y |-> <<>>]

\* model.fit(X_scaled, y) raises ValueError: y contains NaN
FitRaises(yv) == \E k \in 1..Len(yv) : yv[k] = <<>>

\* LinearRegression().fit: coef_ and intercept_ are the least-squares
\* solution, a term over the training matrix and target
LinearRegressionFit(Xs, yv) == [fitted |-> TRUE, X |-> Xs, y |-> yv]

\* model.predict(Xs)
Predict(m, Xs) == [model |-> m, x |-> Xs]

\* mean_squared_error / mean_absolute_percentage_error
Metric(name, yv, yp) == [metric |-> name, y_true |-> yv, y_pred |-> yp]

NoMetric == Metric("none", <<>>, Predict(NoModel, NoMatrix))

\* x * 100 (line 85)
Percent(v) == [times100 |-> v]

\* round(v, 2)
Round2(v) == [round |-> 2, of |-> v]

\* --------------------------------------------------------------- state
VARIABLES
    pc,               \* each request's position in predict_sales
    args,             \* request.args months_ahead
    months_ahead,
    conn,             \* outcome of engine.connect()/read_sql_query
    df,
    X, y,
    scaler_X, X_scaled,
    model, mse, mape,
    current_year, current_month,
    i,                \* iterations of the projection loop begun
    predictions,
    historical_data,
    response          \* what the handler returned: status and JSON body

vars == <<pc, args, months_ahead, conn, df, X, y, scaler_X, X_scaled, model,
          mse, mape, current_year, current_month, i, predictions,
          historical_data, response>>

NoResponse == [status |-> 0, body |-> [error |-> ""]]

\* a request that was received with argument a
Fresh(a, position) ==
    /\ pc = [r \in Requests |-> position[r]]
    /\ args = a
    /\ months_ahead = [r \in Requests |-> 0]
    /\ conn = [r \in Requests |-> "unused"]
    /\ df = [r \in Requests |-> <<>>]
    /\ X = [r \in Requests |-> <<>>]
    /\ y = [r \in Requests |-> <<>>]
    /\ scaler_X = [r \in Requests |-> Unfitted]
    /\ X_scaled = [r \in Requests |-> NoMatrix]
    /\ model = [r \in Requests |-> NoModel]
    /\ mse = [r \in Requests |-> NoMetric]
    /\ mape = [r \in Requests |-> Percent(NoMetric)]
    /\ current_year = [r \in Requests |-> 0]
    /\ current_month = [r \in Requests |-> 0]
    /\ i = [r \in Requests |-> 0]
    /\ predictions = [r \in Requests |-> <<>>]
    /\ historical_data = [r \in Requests |-> <<>>]
    /\ response = [r \in Requests |-> NoResponse]

\* months_ahead arguments and query results of the concurrent runs: a series
\* ending in December and the same series one month later
ConcArgs == {[present |-> TRUE, text |-> <<"1">>], [present |-> TRUE, text |-> <<"2">>],
             [present |-> TRUE, text |-> <<"a">>]}
ConcSeries == {Series(2023, 12, MinDataPoints, "plain"),
               Series(2024, 1, MinDataPoints + 1, "plain")}

\* every request in flight at once
InitConc == \E a \in [Requests -> ConcArgs] : Fresh(a, [r \in Requests |-> "parse"])

\* one request, any months_ahead argument
Init ==
    \E a \in RawArgs :
        Fresh([r \in Requests |-> IF r = 1 THEN a ELSE [present |-> FALSE, text |-> <<>>]],
              [r \in Requests |-> IF r = 1 THEN "parse" ELSE "absent"])

\* ------------------------------------------------------------- handler
\* jsonify({"error": ...}), code: the early returns of lines 39 and 58
ErrorResponse(code, msg) == [status |-> code, body |-> [error |-> msg]]

\* the handler returning what the loop had built so far
ExceptionResponseWithPartial(r, msg) ==
    [status |-> 500, body |-> [error |-> msg, predictions |-> predictions[r]]]

\* except Exception as e: return jsonify({"error": str(e)}), 500
ExceptionResponse(r, msg) == ErrorResponse(500, msg)

Return(r, resp) ==
    /\ response' = [response EXCEPT ![r] = resp]
    /\ pc' = [pc EXCEPT ![r] = "done"]

Goto(r, position) ==
    /\ pc' = [pc EXCEPT ![r] = position]
    /\ UNCHANGED response

\* the range check letting 0 through
OutOfRangeFromZero(h) == h < 0 \/ h > MaxHorizon

\* the range check of line 38
OutOfRange(h) == h < MinHorizon \/ h > MaxHorizon

\* lines 36-39: parse months_ahead and check its range
ParseArgs(r) ==
    /\ pc[r] = "parse"
    /\ IF IntRaises(args[r])
         THEN /\ Return(r, ExceptionResponse(r, "invalid literal for int()"))
              /\ UNCHANGED months_ahead
         ELSE /\ months_ahead' = [months_ahead EXCEPT ![r] = ParsedMonthsAhead(args[r])]
              /\ IF OutOfRange(months_ahead'[r])
                   THEN Return(r, ErrorResponse(400, "months_ahead must be between 1 and 12"))
                   ELSE Goto(r, "query")
    /\ UNCHANGED <<args, conn, df, X, y, scaler_X, X_scaled, model, mse, mape,
                   current_year, current_month, i, predictions, historical_data>>

\* the length check written <= : six rows are refused
TooFewRowsInclusive(rows) == Len(rows) <= MinDataPoints

\* the length check of line 57
TooFewRows(rows) == Len(rows) < MinDataPoints

\* lines 42-58: run the aggregate query; the database is down, or it returns
\* one of the series in results; fewer than 6 rows are refused
QuerySales(r, results) ==
    /\ pc[r] = "query"
    /\ \/ /\ conn' = [conn EXCEPT ![r] = "failed"]
          /\ Return(r, ExceptionResponse(r, "could not connect to server"))
          /\ UNCHANGED df
       \/ \E rows \in results :
            /\ conn' = [conn EXCEPT ![r] = "ok"]
            /\ df' = [df EXCEPT ![r] = rows]
            /\ IF TooFewRows(rows)
                 THEN Return(r, ErrorResponse(400, "Not enough data for prediction"))
                 ELSE Goto(r, "features")
    /\ UNCHANGED <<args, months_ahead, X, y, scaler_X, X_scaled, model, mse, mape,
                   current_year, current_month, i, predictions, historical_data>>

\* lines 61-72: time_index, month_sin, month_cos; X and y
BuildFeatures(r) ==
    /\ pc[r] = "features"
    /\ X' = [X EXCEPT ![r] = FeatureMatrix(df[r])]
    /\ y' = [y EXCEPT ![r] = TargetVector(df[r])]
    /\ Goto(r, "scale")
    /\ UNCHANGED <<args, months_ahead, conn, df, scaler_X, X_scaled, model, mse, mape,
                   current_year, current_month, i, predictions, historical_data>>

\* one module-level scaler that every request fits and reads
FitScalerShared(r) ==
    /\ pc[r] = "scale"
    /\ scaler_X' = [q \in Requests |-> StandardScalerFit(X[r])]
    /\ X_scaled' = [X_scaled EXCEPT ![r] = Transform(scaler_X'[r], X[r])]
    /\ Goto(r, "fit")
    /\ UNCHANGED <<args, months_ahead, conn, df, X, y, model, mse, mape,
                   current_year, current_month, i, predictions, historical_data>>

\* lines 75-76: scaler_X = StandardScaler(); X_scaled = scaler_X.fit_transform(X)
FitScaler(r) ==
    /\ pc[r] = "scale"
    /\ scaler_X' = [scaler_X EXCEPT ![r] = StandardScalerFit(X[r])]
    /\ X_scaled' = [X_scaled EXCEPT ![r] = Transform(scaler_X'[r], X[r])]
    /\ Goto(r, "fit")
    /\ UNCHANGED <<args, months_ahead, conn, df, X, y, model, mse, mape,
                   current_year, current_month, i, predictions, historical_data>>

\* lines 79-93: fit the regression, the in-sample metrics, and the loop's
\* starting point (the last historical year and month)
FitModel(r) ==
    /\ pc[r] = "fit"
    /\ IF FitRaises(y[r])
         THEN /\ Return(r, ExceptionResponse(r, "Input y contains NaN."))
              /\ UNCHANGED <<model, mse, mape, current_year, current_month>>
         ELSE /\ model' = [model EXCEPT ![r] = LinearRegressionFit(X_scaled[r], y[r])]
              /\ mse' = [mse EXCEPT ![r] =
                            Metric("mse", y[r], Predict(model'[r], X_scaled[r]))]
              /\ mape' = [mape EXCEPT ![r] =
                            Percent(Metric("mape", y[r], Predict(model'[r], X_scaled[r])))]
              /\ current_year' = [current_year EXCEPT ![r] = df[r][Len(df[r])].year]
              /\ current_month' = [current_month EXCEPT ![r] = df[r][Len(df[r])].month]
              /\ Goto(r, "project")
    /\ UNCHANGED <<args, months_ahead, conn, df, X, y, scaler_X, X_scaled,
                   i, predictions, historical_data>>

\* the features of a forecast step: lines 105-109
ForecastFeatures(n, step, month) == FeatureRow(ForecastTimeIndex(n, step), month)

\* the entry appended at lines 118-124
ForecastPoint(year, month, predicted) ==
    [year            |-> year,
     month           |-> month,
     month_name      |-> MonthName(month),
     predicted_sales |-> Round2(predicted),
     date            |-> DateStr(year, month)]

\* fit_transform in the loop: the scaler is refitted on the forecast row
ApplyScalerRefits(scaler, M) == <<StandardScalerFit(M), Transform(StandardScalerFit(M), M)>>

\* scaler_X.transform(X_pred) of line 110: the scaler after the call and the
\* scaled matrix; transform leaves the fitted parameters as they are
ApplyScaler(scaler, M) == <<scaler, Transform(scaler, M)>>

\* lines 95-124: one turn of the for loop, an iteration or its exit
ProjectStep(r) ==
    /\ pc[r] = "project"
    /\ IF i[r] >= months_ahead[r]
         THEN /\ Goto(r, "history")
              /\ UNCHANGED <<i, current_year, current_month, scaler_X, predictions>>
         ELSE LET next    == AdvanceMonth(current_year[r], current_month[r])
                  x_pred  == <<ForecastFeatures(Len(df[r]), i[r] + 1, next[2])>>
                  applied == ApplyScaler(scaler_X[r], x_pred)
              IN  /\ i' = [i EXCEPT ![r] = i[r] + 1]
                  /\ current_year' = [current_year EXCEPT ![r] = next[1]]
                  /\ current_month' = [current_month EXCEPT ![r] = next[2]]
                  /\ scaler_X' = [scaler_X EXCEPT ![r] = applied[1]]
                  /\ IF ~TimestampOK(next[1], next[2])
                       THEN /\ Return(r, ExceptionResponse(r,
                                            "Out of bounds nanosecond timestamp"))
                            /\ UNCHANGED predictions
                       ELSE /\ predictions' = [predictions EXCEPT ![r] =
                                   Append(predictions[r],
                                          ForecastPoint(next[1], next[2],
                                                        Predict(model[r], applied[2])))]
                            /\ Goto(r, "project")
    /\ UNCHANGED <<args, months_ahead, conn, df, X, y, X_scaled, model,
                   mse, mape, historical_data>>

\* the date built without the row's month
HistoricalPointInJanuary(row) ==
    [year        |-> row.year,
     month       |-> row.month,
     month_name  |-> MonthName(row.month),
     total_sales |-> row.total_sales,
     date        |-> DateStr(row.year, 1)]

\* the entry appended at lines 132-138
HistoricalPoint(row) ==
    [year        |-> row.year,
     month       |-> row.month,
     month_name  |-> MonthName(row.month),
     total_sales |-> row.total_sales,
     date        |-> DateStr(row.year, row.month)]

\* rows rendered before the first one pd.Timestamp refuses
Renderable(rows) ==
    IF \A k \in 1..Len(rows) : TimestampOK(rows[k].year, rows[k].month)
      THEN Len(rows)
      ELSE (CHOOSE k \in 1..Len(rows) :
                /\ ~TimestampOK(rows[k].year, rows[k].month)
                /\ \A j \in 1..(k - 1) : TimestampOK(rows[j].year, rows[j].month)) - 1

\* lines 127-138: the loop over df.iterrows()
RenderHistory(r) ==
    /\ pc[r] = "history"
    /\ historical_data' = [historical_data EXCEPT ![r] =
            [k \in 1..Renderable(df[r]) |-> HistoricalPoint(df[r][k])]]
    /\ IF Renderable(df[r]) < Len(df[r])
         THEN Return(r, ExceptionResponse(r, "Out of bounds nanosecond timestamp"))
         ELSE Goto(r, "respond")
    /\ UNCHANGED <<args, months_ahead, conn, df, X, y, scaler_X, X_scaled, model,
                   mse, mape, current_year, current_month, i, predictions>>

\* model_info of lines 143-148
ModelInfo(n, s, a) ==
    [type                 |-> "Linear Regression",
     training_data_points |-> n,
     mse                  |-> Round2(s),
     mape                 |-> Round2(a)]

\* the body returned at lines 140-149
Bundle(preds, hist, info) ==
    [predictions |-> preds, historical_data |-> hist, model_info |-> info]

\* lines 140-149
Respond(r) ==
    /\ pc[r] = "respond"
    /\ Return(r, [status |-> 200,
                  body |-> Bundle(predictions[r], historical_data[r],
                                  ModelInfo(Len(df[r]), mse[r], mape[r]))])
    /\ UNCHANGED <<args, months_ahead, conn, df, X, y, scaler_X, X_scaled, model,
                   mse, mape, current_year, current_month, i, predictions,
                   historical_data>>

Next ==
    \E r \in Requests :
        \/ ParseArgs(r)
        \/ QuerySales(r, AllSeries)
        \/ BuildFeatures(r)
        \/ FitScaler(r)
        \/ FitModel(r)
        \/ ProjectStep(r)
        \/ RenderHistory(r)
        \/ Respond(r)

Spec == Init /\ [][Next]_vars

NextConc ==
    \E r \in Requests :
        \/ ParseArgs(r)
        \/ QuerySales(r, ConcSeries)
        \/ BuildFeatures(r)
        \/ FitScaler(r)
        \/ FitModel(r)
        \/ ProjectStep(r)
        \/ RenderHistory(r)
        \/ Respond(r)

SpecConc == InitConc /\ [][NextConc]_vars

\* ================================================================ claims
Last(rows) == rows[Len(rows)]
Succeeded(r) == response[r].status = 200
Finished(r) == pc[r] = "done"
Horizons == MinHorizon..MaxHorizon

\* the month k months after the month of row, by month arithmetic
MonthAfter(row, k) ==
    <<YearOf(MonthIndex(row.year, row.month) + k), MonthOf(MonthIndex(row.year, row.month) + k)>>

\* nothing was retrieved or computed for request r
NothingComputed(r) ==
    /\ conn[r] = "unused"
    /\ df[r] = <<>>
    /\ X[r] = <<>> /\ y[r] = <<>>
    /\ scaler_X[r] = Unfitted /\ X_scaled[r] = NoMatrix
    /\ model[r] = NoModel /\ mse[r] = NoMetric
    /\ predictions[r] = <<>> /\ historical_data[r] = <<>>

\* no feature, scaler, model or forecast point was built for request r
NothingFitted(r) ==
    /\ X[r] = <<>> /\ y[r] = <<>>
    /\ scaler_X[r] = Unfitted /\ X_scaled[r] = NoMatrix
    /\ model[r] = NoModel /\ mse[r] = NoMetric
    /\ predictions[r] = <<>> /\ historical_data[r] = <<>>

\* C1: a successful forecast for horizon H over a series of at least 6 points
\* returns exactly H points; the first is the month right after the last
\* historical month, each later one the month right after its predecessor
\* (December is followed by January of the next year), months are in 1..12.
C1_ConsecutiveMonths ==
    \A r \in Requests :
        Succeeded(r) =>
            LET preds == response[r].body.predictions
            IN  /\ months_ahead[r] \in Horizons
                /\ Len(df[r]) >= MinDataPoints
                /\ Len(preds) = months_ahead[r]
                /\ \A k \in 1..Len(preds) :
                     /\ preds[k].month \in 1..12
                     /\ MonthIndex(preds[k].year, preds[k].month) =
                          1 + (IF k = 1
                                 THEN MonthIndex(Last(df[r]).year, Last(df[r]).month)
                                 ELSE MonthIndex(preds[k - 1].year, preds[k - 1].month))

\* witness: twelve points returned for a series ending in July
C1_Witness ==
    \E r \in Requests :
        /\ Succeeded(r)
        /\ Len(response[r].body.predictions) = 12
        /\ Last(df[r]).month = 7

\* C2: an integer horizon outside 1..12 ends in the validation error and
\* nothing is retrieved or computed: no query, no features, scaler, model
\* or forecast point, whatever the database holds.
C2_OutOfRangeRejectedFirst ==
    \A r \in Requests :
        (/\ pc[r] \notin {"absent", "parse"}
         /\ ~IntRaises(args[r])
         /\ ParsedMonthsAhead(args[r]) \notin 1..12)
        => /\ Finished(r)
           /\ response[r] = ErrorResponse(400, "months_ahead must be between 1 and 12")
           /\ NothingComputed(r)

\* witness: months_ahead=13 was answered
C2_Witness ==
    \E r \in Requests :
        /\ Finished(r)
        /\ args[r] = [present |-> TRUE, text |-> <<"1", "3">>]
        /\ response[r].status = 400

\* C3: with a valid horizon, a retrieved series of 5 or fewer points ends in
\* the insufficient-data error with no feature, scaler, model or forecast
\* point built; a series of exactly 6 points passes the check.
C3_InsufficientData ==
    \A r \in Requests :
        /\ (conn[r] = "ok" /\ Len(df[r]) <= 5)
            => /\ months_ahead[r] \in Horizons
               /\ Finished(r)
               /\ response[r] = ErrorResponse(400, "Not enough data for prediction")
               /\ NothingFitted(r)
        /\ (conn[r] = "ok" /\ Len(df[r]) = 6)
            => /\ response[r] # ErrorResponse(400, "Not enough data for prediction")
               /\ pc[r] \in {"features", "scale", "fit", "project", "history",
                             "respond", "done"}
               /\ Finished(r) => X[r] = FeatureMatrix(df[r])

\* witness: five rows were refused
C3_Witness ==
    \E r \in Requests :
        /\ conn[r] = "ok" /\ Len(df[r]) = 5
        /\ response[r].status = 400

\* C4: a horizon that is not an integer literal is refused with the
\* validation error kind (status 400, as for an out-of-range integer), not
\* the computation error kind, and nothing is retrieved or fitted.
C4_NonIntegerIsValidationError ==
    \A r \in Requests :
        (Finished(r) /\ IntRaises(args[r]))
        => /\ response[r].status = 400
           /\ NothingComputed(r)

\* the order of the handler's stages
Rank(position) ==
    CASE position = "absent" -> 0 [] position = "parse" -> 0
      [] position = "query" -> 1 [] position = "features" -> 2
      [] position = "scale" -> 3 [] position = "fit" -> 4
      [] position = "project" -> 5 [] position = "history" -> 6
      [] position = "respond" -> 7 [] position = "done" -> 8

\* what request r has returned: nothing yet, the complete bundle, or an
\* error body holding the error alone
OneOutcome(r) ==
    IF ~Finished(r) THEN response[r] = NoResponse
    ELSE \/ /\ response[r].status = 200
            /\ DOMAIN response[r].body = {"predictions", "historical_data", "model_info"}
            /\ Len(response[r].body.predictions) = months_ahead[r]
            /\ Len(response[r].body.historical_data) = Len(df[r])
         \/ /\ response[r].status \in {400, 500}
            /\ DOMAIN response[r].body = {"error"}

LocalsOf(r) ==
    <<pc[r], args[r], months_ahead[r], conn[r], df[r], X[r], y[r], scaler_X[r],
      X_scaled[r], model[r], mse[r], mape[r], current_year[r], current_month[r],
      i[r], predictions[r], historical_data[r], response[r]>>

\* the next step of request r
StepOf(r) ==
    \/ ParseArgs(r) \/ QuerySales(r, AllSeries) \/ BuildFeatures(r) \/ FitScaler(r)
    \/ FitModel(r) \/ ProjectStep(r) \/ RenderHistory(r) \/ Respond(r)

\* C5: a request ends in the complete bundle or in an error carrying no
\* forecast data, also when it fails after forecast points were built; an
\* unfinished request can always go on, a finished request does nothing
\* more, and no stage is entered again.
C5_BundleOrErrorNoRetry ==
    [][\A r \in Requests :
          /\ OneOutcome(r)'
          /\ (pc[r] \notin {"absent", "done"} => ENABLED StepOf(r))'
          /\ Finished(r) => LocalsOf(r)' = LocalsOf(r)
          /\ Rank(pc'[r]) >= Rank(pc[r])
          /\ (pc'[r] = pc[r] /\ LocalsOf(r)' # LocalsOf(r))
               => (pc[r] = "project" /\ i'[r] = i[r] + 1)]_vars

\* witness: a request failed after it had built forecast points
C5_Witness ==
    \E r \in Requests :
        /\ Finished(r)
        /\ response[r].status = 500
        /\ Len(predictions[r]) >= 1

\* the scaler and model a request fits when it runs alone on rows
AloneScaler(rows) == StandardScalerFit(FeatureMatrix(rows))
AloneScaled(rows) == Transform(AloneScaler(rows), FeatureMatrix(rows))
AloneModel(rows) == LinearRegressionFit(AloneScaled(rows), TargetVector(rows))

AloneForecast(rows, h) ==
    [k \in 1..h |->
        ForecastPoint(MonthAfter(Last(rows), k)[1], MonthAfter(Last(rows), k)[2],
            Predict(AloneModel(rows),
                    Transform(AloneScaler(rows),
                              <<FeatureRow(Len(rows) + k, MonthAfter(Last(rows), k)[2])>>)))]

AloneBundle(rows, h) ==
    Bundle(AloneForecast(rows, h),
           [k \in 1..Len(rows) |-> HistoricalPoint(rows[k])],
           ModelInfo(Len(rows),
                     Metric("mse", TargetVector(rows),
                            Predict(AloneModel(rows), AloneScaled(rows))),
                     Percent(Metric("mape", TargetVector(rows),
                                    Predict(AloneModel(rows), AloneScaled(rows))))))

\* the response to a request run with no other request in flight
RunAlone(arg, connection, rows) ==
    IF IntRaises(arg) THEN ErrorResponse(500, "invalid literal for int()")
    ELSE IF ParsedMonthsAhead(arg) \notin Horizons
      THEN ErrorResponse(400, "months_ahead must be between 1 and 12")
    ELSE IF connection = "failed" THEN ErrorResponse(500, "could not connect to server")
    ELSE IF Len(rows) < MinDataPoints
      THEN ErrorResponse(400, "Not enough data for prediction")
    ELSE IF \E k \in 1..Len(rows) : rows[k].total_sales = <<>>
      THEN ErrorResponse(500, "Input y contains NaN.")
    ELSE IF \/ \E k \in 1..ParsedMonthsAhead(arg) :
                  ~TimestampOK(MonthAfter(Last(rows), k)[1], MonthAfter(Last(rows), k)[2])
            \/ \E k \in 1..Len(rows) : ~TimestampOK(rows[k].year, rows[k].month)
      THEN ErrorResponse(500, "Out of bounds nanosecond timestamp")
    ELSE [status |-> 200, body |-> AloneBundle(rows, ParsedMonthsAhead(arg))]

\* two arguments ask for the same horizon
SameHorizon(a1, a2) ==
    IF IntRaises(a1) \/ IntRaises(a2) THEN a1 = a2
    ELSE ParsedMonthsAhead(a1) = ParsedMonthsAhead(a2)

\* C6: under every interleaving, a finished request has returned what it
\* returns when run alone on its argument and query result, and the scaler
\* and model it holds are the ones fitted on its own series; so two
\* finished requests with the same argument and series returned the same.
C6_IsolatedRequests ==
    /\ \A r \in Requests :
         /\ Finished(r) => response[r] = RunAlone(args[r], conn[r], df[r])
         /\ scaler_X[r] \in {Unfitted, AloneScaler(df[r])}
         /\ model[r] \in {NoModel, AloneModel(df[r])}
    /\ \A r1, r2 \in Requests :
         (/\ Finished(r1) /\ Finished(r2)
          /\ SameHorizon(args[r1], args[r2])
          /\ conn[r1] = conn[r2] /\ df[r1] = df[r2])
         => response[r1] = response[r2]

\* witness: two requests over different series both succeeded
C6_Witness ==
    \E r1, r2 \in Requests :
        /\ r1 # r2
        /\ Succeeded(r1) /\ Succeeded(r2)
        /\ df[r1] # df[r2]

\* years that differ from the year before them along the forecast
YearSteps(row, preds) ==
    {k \in 1..Len(preds) :
        preds[k].year # (IF k = 1 THEN row.year ELSE preds[k - 1].year)}

\* C7: the k-th forecast point after a last point (Y, m) has month
\* ((m - 1 + k) mod 12) + 1 and year Y + ((m - 1 + k) div 12); after December
\* comes (Y + 1, 1); the year is incremented at most once over a forecast,
\* and exactly once when m + H > 12.
C7_KthMonthClosedForm ==
    \A r \in Requests :
        /\ \A k \in 1..Len(predictions[r]) :
             /\ predictions[r][k].month = ((Last(df[r]).month - 1 + k) % 12) + 1
             /\ predictions[r][k].year =
                  Last(df[r]).year + ((Last(df[r]).month - 1 + k) \div 12)
        /\ (Len(predictions[r]) >= 1 /\ Last(df[r]).month = 12)
             => /\ predictions[r][1].year = Last(df[r]).year + 1
                /\ predictions[r][1].month = 1
        /\ Succeeded(r) =>
             /\ Cardinality(YearSteps(Last(df[r]), response[r].body.predictions)) <= 1
             /\ Cardinality(YearSteps(Last(df[r]), response[r].body.predictions)) = 1
                  <=> Last(df[r]).month + months_ahead[r] > 12
             /\ \A k \in YearSteps(Last(df[r]), response[r].body.predictions) :
                  response[r].body.predictions[k].year =
                      (IF k = 1 THEN Last(df[r]).year
                       ELSE response[r].body.predictions[k - 1].year) + 1

\* witness: 6 points ending 2023-06 and horizon 12 end on 2024-06
C7_Witness ==
    \E r \in Requests :
        /\ Succeeded(r)
        /\ Len(df[r]) = 6 /\ Last(df[r]).year = 2023 /\ Last(df[r]).month = 6
        /\ months_ahead[r] = 12
        /\ response[r].body.predictions[12].year = 2024
        /\ response[r].body.predictions[12].month = 6

\* C8: on success historical_data has one entry per input point, in input
\* order, with the point's year, month and total_sales and the first day of
\* its month as date; training_data_points is the number of input points;
\* the projection loop adds nothing to historical_data.
C8_HistoryMirrorsInput ==
    \A r \in Requests :
        /\ Succeeded(r) =>
             /\ Len(response[r].body.historical_data) = Len(df[r])
             /\ \A k \in 1..Len(df[r]) :
                  /\ response[r].body.historical_data[k].year = df[r][k].year
                  /\ response[r].body.historical_data[k].month = df[r][k].month
                  /\ response[r].body.historical_data[k].total_sales = df[r][k].total_sales
                  /\ response[r].body.historical_data[k].date =
                        <<df[r][k].year, df[r][k].month, 1>>
             /\ response[r].body.model_info.training_data_points = Len(df[r])
        /\ pc[r] \in {"parse", "query", "features", "scale", "fit", "project"}
             => historical_data[r] = <<>>

\* witness: a 7-point series went out with a 3-month forecast
C8_Witness ==
    \E r \in Requests :
        /\ Succeeded(r)
        /\ Len(response[r].body.historical_data) = 7
        /\ months_ahead[r] = 3

\* the time_index the k-th forecast point was predicted from
TimeIndexOfPoint(point) == point.predicted_sales.of.x.rows[1][1]

\* time_index over training followed by the forecast built so far
TimeIndexSequence(r) ==
    [k \in 1..(Len(X[r]) + Len(predictions[r])) |->
        IF k <= Len(X[r]) THEN X[r][k][1]
        ELSE TimeIndexOfPoint(predictions[r][k - Len(X[r])])]

\* C9: the training time_index values are 1..n in series order and forecast
\* step i uses n + i: over training and projection the sequence is
\* 1, 2, ..., n + H, rising by one with no repeat, gap or reset.
C9_TimeIndexContinues ==
    \A r \in Requests :
        /\ Len(X[r]) \in {0, Len(df[r])}
        /\ \A k \in 1..Len(TimeIndexSequence(r)) : TimeIndexSequence(r)[k] = k
        /\ \A k \in 1..Len(predictions[r]) :
             TimeIndexOfPoint(predictions[r][k]) = Len(df[r]) + k
        /\ Succeeded(r) => Len(TimeIndexSequence(r)) = Len(df[r]) + months_ahead[r]

\* witness: a forecast past a year's end whose time_index is not the month
C9_Witness ==
    \E r \in Requests :
        /\ Succeeded(r)
        /\ Last(df[r]).month = 12
        /\ months_ahead[r] = 12
        /\ TimeIndexOfPoint(predictions[r][1]) # predictions[r][1].month
        /\ X[r][1][1] # df[r][1].month

\* the features of every forecast point are those of its position and month,
\* scaled by the request's scaler and given to the request's model
FeaturesFromPositionOnly(r) ==
    \A k \in 1..Len(predictions[r]) :
        /\ predictions[r][k].predicted_sales.of.x.rows =
              <<FeatureRow(Len(df[r]) + k, predictions[r][k].month)>>
        /\ predictions[r][k].predicted_sales.of.x.by = scaler_X[r]
        /\ predictions[r][k].predicted_sales.of.model = model[r]

\* the forecasts of two requests over the same series agree where both have a point
PrefixOfLonger(r1, r2) ==
    df[r1] = df[r2] =>
        \A k \in 1..Len(predictions[r1]) :
            k <= Len(predictions[r2]) => predictions[r1][k] = predictions[r2][k]

\* C10: no turn of the projection loop changes the scaler parameters, the
\* model, the fit metrics or the historical series; a step's features come
\* from the series length, the step and its month alone; so over one series
\* the forecast for horizon k is the first k points of that for any H >= k.
C10_LoopLeavesFitAlone ==
    [][\A r1 \in Requests :
          /\ pc[r1] = "project" =>
                /\ scaler_X'[r1] = scaler_X[r1]
                /\ X_scaled'[r1] = X_scaled[r1]
                /\ model'[r1] = model[r1]
                /\ mse'[r1] = mse[r1] /\ mape'[r1] = mape[r1]
                /\ df'[r1] = df[r1] /\ X'[r1] = X[r1] /\ y'[r1] = y[r1]
                /\ SubSeq(predictions'[r1], 1, Len(predictions[r1])) = predictions[r1]
          /\ FeaturesFromPositionOnly(r1)'
          /\ \A r2 \in Requests : PrefixOfLonger(r1, r2)']_vars

\* witness: over one series, horizon 1 and horizon 2 both succeeded
C10_Witness ==
    \E r1, r2 \in Requests :
        /\ Succeeded(r1) /\ Succeeded(r2)
        /\ df[r1] = df[r2]
        /\ months_ahead[r1] = 1 /\ months_ahead[r2] = 2
        /\ response[r2].body.predictions[1] = response[r1].body.predictions[1]
====
